---- MODULE Spec2Model ----
(***************************************************************************)
(* Model of the stateful example components of the React tutorial:         *)
(*   03-DetectiveInTheField.tsx  DetectiveInTheField (function component)  *)
(*                               DetectiveInTheFieldClass (class)          *)
(*   04-Hooks.tsx                Counter, CounterWithSideEffects,          *)
(*                               useToggleState, Toggle                    *)
(* The components are modelled together with the part of React they call:  *)
(* useState keeps a hook state and a queue of pending updates that the     *)
(* next render consumes; an event handler is the closure created by the    *)
(* last committed render; useEffect callbacks are passive effects that     *)
(* React runs after the commit of the render that scheduled them and       *)
(* before the next render; the cleanup functions of an unmounted component *)
(* run while it is removed (React 16) or some time after (React 17 and     *)
(* later).  The components are mounted with react-dom's render, as         *)
(* index.tsx does.                                                         *)
(***************************************************************************)
EXTENDS Integers, Sequences, FiniteSets, TLC

VARIABLES
  \* ---- 03-DetectiveInTheField.tsx ----
  props,        \* the props both detective components are mounted with
  detMounted,   \* whether the two components have been mounted
  fnState,      \* DetectiveInTheField: the useState hook's state
  fnQueue,      \* DetectiveInTheField: values passed to setCasesSolved, unprocessed
  fnClosure,    \* DetectiveInTheField: `casesSolved` captured by the last render
  fnOut,        \* DetectiveInTheField: the committed output
  clsState,     \* DetectiveInTheFieldClass: this.state.casesSolved
  clsQueue,     \* DetectiveInTheFieldClass: number of enqueued updater functions
  clsOut,       \* DetectiveInTheFieldClass: the committed output
  detClicks,    \* number of clicks on "Solve this case" so far
  \* ---- 04-Hooks.tsx: Counter ----
  cntCount,     \* the useState hook's state of `count`
  cntQueue,     \* values passed to setCount, unprocessed
  cntClosure,   \* `count` captured by the last render (used by onClick)
  cntShown,     \* the number displayed in the <div>
  cntMounted,   \* whether Counter is mounted
  cntClicks,    \* number of clicks on "Increment" so far
  cntRenders,   \* number of renders (the mount included) no update caused
  cntLatest,    \* the value most recently passed to setCount (0 before any)
  \* ---- 04-Hooks.tsx: useToggleState / Toggle ----
  togInit,      \* the initialState argument of useToggleState
  togMounted,   \* whether the component using the hook is mounted
  togState,     \* the useState hook's state
  togQueue,     \* values passed to setState, unprocessed
  togClosure,   \* `state` captured by the last render (used by toggleState)
  togColor,     \* the committed text colour
  togHistory,   \* the steps since mounting, each with the state returned after it
  \* ---- 04-Hooks.tsx: CounterWithSideEffects ----
  effMounted,   \* "no", "yes", "unmounting" (removed, cleanup not run) or "unmounted"
  effCount,     \* the useState hook's state of `count`
  effQueue,     \* values passed to setCount, unprocessed
  effClosure,   \* `count` captured by the last render
  effDeps,      \* the [count] dependencies stored by the last render
  effScheduled, \* the effects the last render scheduled and React has not run yet
  effPhase,     \* "idle", or "effects" while passive effects are scheduled
  effCleanup,   \* timerId captured by the pending cleanup function (0: none)
  effTitle,     \* document.title, as the number of clicks it names
  timers,       \* the pending setTimeout timers
  nextTimerId,  \* the id setTimeout returns next
  now,          \* the clock, in ms
  effRenders,   \* per render: the value of count and the time of the render
  effRan,       \* per run of the effects: the messages the three logging effects wrote
  effMessages,  \* the 'Some useful message' lines logged, with when and by which timer
  effClicks     \* number of clicks on "Increment" so far

detVars == <<props, detMounted, fnState, fnQueue, fnClosure, fnOut,
             clsState, clsQueue, clsOut, detClicks>>
cntVars == <<cntCount, cntQueue, cntClosure, cntShown, cntMounted, cntClicks,
             cntRenders, cntLatest>>
togVars == <<togInit, togMounted, togState, togQueue, togClosure, togColor,
             togHistory>>
effVars == <<effMounted, effCount, effQueue, effClosure, effDeps, effScheduled,
             effPhase, effCleanup, effTitle, timers, nextTimerId, now,
             effRenders, effRan, effMessages, effClicks>>
vars == <<detVars, cntVars, togVars, effVars>>

\* ------------------------------------------------------------------ bounds
MaxClicks == 4      \* clicks per component
MaxBatch == 2       \* event handlers run before one re-render
MaxInitial == 2     \* largest casesSolvedSoFar passed as a prop
MaxCount == 6       \* clicks on Counter's "Increment"
MaxRenders == 3     \* re-renders not caused by a state update
MaxHistory == 6     \* steps of the component using useToggleState
MaxEffRenders == 3  \* renders of CounterWithSideEffects
MaxTime == 7500     \* the clock stops here
TickMs == 2500      \* the clock's step

\* ------------------------------------------------------- JavaScript values
Num(n) == [t |-> "number", v |-> n]
Undefined == [t |-> "undefined", v |-> 0]
NaN == [t |-> "NaN", v |-> 0]
Bool(b) == [t |-> "boolean", v |-> IF b THEN 1 ELSE 0]

\* x + 1 : undefined converts to NaN, and NaN + 1 is NaN
JsPlusOne(x) == IF x.t = "number" THEN Num(x.v + 1) ELSE NaN

\* x > n : every comparison with undefined or NaN is false
JsGreater(x, n) == x.t = "number" /\ x.v > n

\* a destructuring default `= d` replaces undefined only
DefaultTo(x, d) == IF x.t = "undefined" THEN d ELSE x

\* truthiness of a value used as a condition
Truthy(x) == \/ x.t = "boolean" /\ x.v = 1
             \/ x.t = "number" /\ x.v # 0

\* !x
JsNot(x) == Bool(~Truthy(x))

\* ----------------------------------------------- 03-DetectiveInTheField
Names == {"Sherlock", "Watson"}
PropsSet == [name : Names,
             casesSolvedSoFar : {Undefined} \cup {Num(n) : n \in 0..MaxInitial}]

NoOutput == [greeting |-> "", line |-> "none", n |-> 0, noun |-> "", button |-> ""]

\* the JSX both components return, for a name and a value of casesSolved
DetectiveOutput(name, casesSolved) ==
  [greeting |-> name,
   line |-> IF JsGreater(casesSolved, 0) THEN "I've solved"
            ELSE "I'm a detective in the making.",
   n |-> IF JsGreater(casesSolved, 0) THEN casesSolved.v ELSE 0,
   noun |-> IF JsGreater(casesSolved, 0)
            THEN (IF JsGreater(casesSolved, 1) THEN "cases" ELSE "case")
            ELSE "",
   button |-> "Solve this case"]

\* the initial state of the function component
FnInitialState(p) == DefaultTo(p.casesSolvedSoFar, Num(0))

\* the initial state of the class component
ClsInitialState(p) == p.casesSolvedSoFar

\* useState on a re-render: each queued value replaces the state
ReduceValues(state, queue) ==
  IF queue = <<>> THEN state ELSE queue[Len(queue)]

RECURSIVE ApplyUpdaters(_, _)
\* setState(updater) on a re-render: each queued updater maps the state
ApplyUpdaters(state, n) ==
  IF n = 0 THEN state ELSE ApplyUpdaters(JsPlusOne(state), n - 1)

\* incrementCasesSolved of the function component
FnIncrement(queue, closure) == Append(queue, JsPlusOne(closure))

\* incrementCasesSolved of the class component
ClsIncrement(queue) == queue + 1

DetInit ==
  /\ props \in PropsSet
  /\ detMounted = FALSE
  /\ fnState = Undefined /\ fnQueue = <<>> /\ fnClosure = Undefined
  /\ fnOut = NoOutput
  /\ clsState = Undefined /\ clsQueue = 0 /\ clsOut = NoOutput
  /\ detClicks = 0

\* both components are mounted with the same props and rendered once
DetMount ==
  /\ ~detMounted
  /\ detMounted' = TRUE
  /\ fnState' = FnInitialState(props)
  /\ fnClosure' = fnState'
  /\ fnOut' = DetectiveOutput(props.name, fnState')
  /\ clsState' = ClsInitialState(props)
  /\ clsOut' = DetectiveOutput(props.name, clsState')
  /\ UNCHANGED <<props, fnQueue, clsQueue, detClicks>>
  /\ UNCHANGED <<cntVars, togVars, effVars>>

\* one click on "Solve this case", delivered to both components
DetClick ==
  /\ detMounted
  /\ detClicks < MaxClicks
  /\ Len(fnQueue) < MaxBatch
  /\ fnQueue' = FnIncrement(fnQueue, fnClosure)
  /\ clsQueue' = ClsIncrement(clsQueue)
  /\ detClicks' = detClicks + 1
  /\ UNCHANGED <<props, detMounted, fnState, fnClosure, fnOut, clsState, clsOut>>
  /\ UNCHANGED <<cntVars, togVars, effVars>>

\* one re-render of both components
DetRender ==
  /\ detMounted
  /\ fnState' = ReduceValues(fnState, fnQueue)
  /\ fnQueue' = <<>>
  /\ fnClosure' = fnState'
  /\ fnOut' = DetectiveOutput(props.name, fnState')
  /\ clsState' = ApplyUpdaters(clsState, clsQueue)
  /\ clsQueue' = 0
  /\ clsOut' = DetectiveOutput(props.name, clsState')
  /\ UNCHANGED <<props, detMounted, detClicks>>
  /\ UNCHANGED <<cntVars, togVars, effVars>>

DetNext == DetMount \/ DetClick \/ DetRender

\* ------------------------------------------------------ 04-Hooks: Counter
NothingShown == -1

CntInit ==
  /\ cntMounted = FALSE
  /\ cntCount = 0 /\ cntQueue = <<>> /\ cntClosure = 0
  /\ cntShown = NothingShown
  /\ cntClicks = 0 /\ cntRenders = 0 /\ cntLatest = 0

\* the first render: useState(0), and the <div> shows count
CntMount ==
  /\ ~cntMounted
  /\ cntMounted' = TRUE
  /\ cntCount' = 0
  /\ cntClosure' = cntCount'
  /\ cntShown' = cntCount'
  /\ cntRenders' = 1
  /\ UNCHANGED <<cntQueue, cntClicks, cntLatest>>
  /\ UNCHANGED <<detVars, togVars, effVars>>

\* `count = count + 1`: the variable of the last render is mutated directly,
\* no update is queued
CntClickMutatesCount ==
  /\ cntMounted
  /\ cntClicks < MaxCount
  /\ cntClosure' = cntClosure + 1
  /\ cntLatest' = cntClosure + 1
  /\ cntClicks' = cntClicks + 1
  /\ UNCHANGED <<cntCount, cntQueue, cntShown, cntMounted, cntRenders>>
  /\ UNCHANGED <<detVars, togVars, effVars>>

\* onClick of "Increment": setCount(count + 1), count from the last render
CntClick ==
  /\ cntMounted
  /\ cntClicks < MaxCount
  /\ Len(cntQueue) < MaxBatch
  /\ cntQueue' = Append(cntQueue, cntClosure + 1)
  /\ cntLatest' = cntClosure + 1
  /\ cntClicks' = cntClicks + 1
  /\ UNCHANGED <<cntCount, cntClosure, cntShown, cntMounted, cntRenders>>
  /\ UNCHANGED <<detVars, togVars, effVars>>

\* what a render of Counter does: useState returns the reduced state, the new
\* closure captures it and the <div> shows it
CntRenderBody ==
  /\ cntCount' = ReduceValues(cntCount, cntQueue)
  /\ cntQueue' = <<>>
  /\ cntClosure' = cntCount'
  /\ cntShown' = cntCount'
  /\ UNCHANGED <<cntMounted, cntClicks, cntLatest>>
  /\ UNCHANGED <<detVars, togVars, effVars>>

\* the re-render React schedules because setCount was called
CntRender ==
  /\ cntMounted
  /\ cntQueue # <<>>
  /\ CntRenderBody
  /\ cntRenders' = cntRenders

\* a re-render for any other reason (the parent rendered again)
CntParentRender ==
  /\ cntMounted
  /\ cntRenders < MaxRenders
  /\ CntRenderBody
  /\ cntRenders' = cntRenders + 1

CntNext == CntMount \/ CntClick \/ CntRender \/ CntParentRender

\* --------------------------------------- 04-Hooks: useToggleState, Toggle
ToggleInits == {Bool(TRUE), Bool(FALSE), Undefined}

\* style={{color: state ? 'red' : 'black'}}
ToggleColor(state) == IF Truthy(state) THEN "red" ELSE "black"

\* toggleState: setState(!state), state from the last render
ToggleState(queue, closure) == Append(queue, JsNot(closure))

TogInit ==
  /\ togInit \in ToggleInits
  /\ togMounted = FALSE
  /\ togState = Undefined /\ togQueue = <<>> /\ togClosure = Undefined
  /\ togColor = "none"
  /\ togHistory = <<>>

\* the first render: useState(initialState)
TogMount ==
  /\ ~togMounted
  /\ togMounted' = TRUE
  /\ togState' = togInit
  /\ togClosure' = togState'
  /\ togColor' = ToggleColor(togState')
  /\ togHistory' = <<[op |-> "mount", state |-> togState', color |-> togColor']>>
  /\ UNCHANGED <<togInit, togQueue>>
  /\ UNCHANGED <<detVars, cntVars, effVars>>

\* a click on the <div>: the toggle function the last render returned is called
TogClick ==
  /\ togMounted
  /\ Len(togHistory) < MaxHistory
  /\ Len(togQueue) < MaxBatch
  /\ togQueue' = ToggleState(togQueue, togClosure)
  /\ togHistory' = Append(togHistory, [op |-> "toggle", state |-> togClosure,
                                       color |-> togColor])
  /\ UNCHANGED <<togInit, togMounted, togState, togClosure, togColor>>
  /\ UNCHANGED <<detVars, cntVars, effVars>>

\* a re-render of the component that uses the hook
TogRender ==
  /\ togMounted
  /\ Len(togHistory) < MaxHistory
  /\ togState' = ReduceValues(togState, togQueue)
  /\ togQueue' = <<>>
  /\ togClosure' = togState'
  /\ togColor' = ToggleColor(togState')
  /\ togHistory' = Append(togHistory, [op |-> "render", state |-> togState',
                                       color |-> togColor'])
  /\ UNCHANGED <<togInit, togMounted>>
  /\ UNCHANGED <<detVars, cntVars, effVars>>

TogNext == TogMount \/ TogClick \/ TogRender

\* ------------------------------- 04-Hooks: CounterWithSideEffects
TimeoutMs == 5000

EffectNames == {"title", "timer", "each", "first", "count"}
LogMessages == {"each", "first", "count"}

\* areHookInputsEqual for the one-element dependency array [count]
DepsEqual(nextCount, prevCount) == nextCount = prevCount

\* EffectsToRun with the dependency array of the last effect left out
EffectsToRunWithoutDeps(isMount, nextCount, prevCount) ==
  IF isMount THEN EffectNames ELSE {"title", "timer", "each", "count"}

\* The effects a render schedules: every effect on the first render; later,
\* the effects without a dependency array always, the effect with [] never,
\* the effect with [count] when count differs from the stored dependency.
EffectsToRun(isMount, nextCount, prevCount) ==
  IF isMount THEN EffectNames
  ELSE {"title", "timer", "each"}
       \cup (IF DepsEqual(nextCount, prevCount) THEN {} ELSE {"count"})

\* clearTimeout(timerId)
ClearTimeout(ts, id) == {t \in ts : t.id # id}

\* the timer effect without `return () => clearTimeout(timerId)`
TimerCleanupMissing(ts, id) == ts

\* the cleanup function the timer effect returned, run before the effect runs
\* again and on unmount
TimerCleanup(ts, id) == ClearTimeout(ts, id)

EffInit ==
  /\ effMounted = "no"
  /\ effCount = 0 /\ effQueue = <<>> /\ effClosure = 0 /\ effDeps = 0
  /\ effScheduled = {} /\ effPhase = "idle" /\ effCleanup = 0
  /\ effTitle = NothingShown
  /\ timers = {} /\ nextTimerId = 1 /\ now = 0
  /\ effRenders = <<>> /\ effRan = <<>> /\ effMessages = {}
  /\ effClicks = 0

\* the first render: useState(0), all five effects are scheduled
EffMount ==
  /\ effMounted = "no"
  /\ effMounted' = "yes"
  /\ effCount' = 0
  /\ effClosure' = effCount'
  /\ effDeps' = effCount'
  /\ effScheduled' = EffectsToRun(TRUE, effCount', effDeps)
  /\ effPhase' = "effects"
  /\ effRenders' = <<[count |-> effCount', at |-> now]>>
  /\ UNCHANGED <<effQueue, effCleanup, effTitle, timers, nextTimerId, now,
                 effRan, effMessages, effClicks>>
  /\ UNCHANGED <<detVars, cntVars, togVars>>

\* onClick of "Increment": setCount(count + 1), count from the last render
EffClick ==
  /\ effMounted = "yes"
  /\ effClicks < MaxClicks
  /\ Len(effQueue) < MaxBatch
  /\ effQueue' = Append(effQueue, effClosure + 1)
  /\ effClicks' = effClicks + 1
  /\ UNCHANGED <<effMounted, effCount, effClosure, effDeps, effScheduled,
                 effPhase, effCleanup, effTitle, timers, nextTimerId, now,
                 effRenders, effRan, effMessages>>
  /\ UNCHANGED <<detVars, cntVars, togVars>>

\* what a re-render does; React runs the effects of the previous render
\* before it renders again, so a render starts with none scheduled
EffRenderBody ==
  /\ effMounted = "yes"
  /\ effPhase = "idle"
  /\ Len(effRenders) < MaxEffRenders
  /\ effCount' = ReduceValues(effCount, effQueue)
  /\ effQueue' = <<>>
  /\ effClosure' = effCount'
  /\ effScheduled' = EffectsToRun(FALSE, effCount', effDeps)
  /\ effDeps' = effCount'
  /\ effPhase' = "effects"
  /\ effRenders' = Append(effRenders, [count |-> effCount', at |-> now])
  /\ UNCHANGED <<effMounted, effCleanup, effTitle, timers, nextTimerId, now,
                 effRan, effMessages, effClicks>>
  /\ UNCHANGED <<detVars, cntVars, togVars>>

\* the re-render React schedules because setCount was called
EffRender == effQueue # <<>> /\ EffRenderBody

\* a re-render for any other reason: count is the same as in the last render
EffParentRender == effQueue = <<>> /\ EffRenderBody

\* React runs the passive effects of the last render, some time after its
\* commit: first the cleanup of the previous timer effect, then the effects
EffFlush ==
  /\ effPhase = "effects"
  /\ effPhase' = "idle"
  /\ effScheduled' = {}
  /\ effTitle' = IF "title" \in effScheduled THEN effClosure ELSE effTitle
  /\ IF "timer" \in effScheduled
     THEN /\ timers' = TimerCleanup(timers, effCleanup)
                         \cup {[id |-> nextTimerId, deadline |-> now + TimeoutMs,
                                render |-> Len(effRenders)]}
          /\ effCleanup' = nextTimerId
          /\ nextTimerId' = nextTimerId + 1
     ELSE UNCHANGED <<timers, effCleanup, nextTimerId>>
  /\ effRan' = Append(effRan, effScheduled \cap LogMessages)
  /\ UNCHANGED <<effMounted, effCount, effQueue, effClosure, effDeps, now,
                 effRenders, effMessages, effClicks>>
  /\ UNCHANGED <<detVars, cntVars, togVars>>

\* the component is removed; its pending updates are dropped
EffUnmount ==
  /\ effMounted = "yes"
  /\ effPhase = "idle"
  /\ effMounted' = "unmounting"
  /\ effQueue' = <<>>
  /\ UNCHANGED <<effCount, effClosure, effDeps, effScheduled, effPhase,
                 effCleanup, effTitle, timers, nextTimerId, now, effRenders,
                 effRan, effMessages, effClicks>>
  /\ UNCHANGED <<detVars, cntVars, togVars>>

\* React runs the cleanup functions of the removed component's effects
EffUnmountCleanup ==
  /\ effMounted = "unmounting"
  /\ effMounted' = "unmounted"
  /\ timers' = TimerCleanup(timers, effCleanup)
  /\ effCleanup' = 0
  /\ UNCHANGED <<effCount, effQueue, effClosure, effDeps, effScheduled,
                 effPhase, effTitle, nextTimerId, now, effRenders, effRan,
                 effMessages, effClicks>>
  /\ UNCHANGED <<detVars, cntVars, togVars>>

\* a timer that is due fires: () => console.log('Some useful message')
TimerFire ==
  \E t \in timers :
    /\ now >= t.deadline
    /\ timers' = timers \ {t}
    /\ effMessages' = effMessages \cup
         {[timer |-> t.id, setBy |-> t.render, at |-> now,
           renders |-> Len(effRenders), runs |-> Len(effRan),
           mounted |-> effMounted]}
    /\ UNCHANGED <<effMounted, effCount, effQueue, effClosure, effDeps,
                   effScheduled, effPhase, effCleanup, effTitle, nextTimerId,
                   now, effRenders, effRan, effClicks>>
    /\ UNCHANGED <<detVars, cntVars, togVars>>

\* time passes
Tick ==
  /\ now < MaxTime
  /\ now' = now + TickMs
  /\ UNCHANGED <<effMounted, effCount, effQueue, effClosure, effDeps,
                 effScheduled, effPhase, effCleanup, effTitle, timers,
                 nextTimerId, effRenders, effRan, effMessages, effClicks>>
  /\ UNCHANGED <<detVars, cntVars, togVars>>

EffNext == \/ EffMount \/ EffClick \/ EffRender \/ EffParentRender
           \/ EffFlush \/ EffUnmount \/ EffUnmountCleanup \/ TimerFire \/ Tick

\* --------------------------------------------------------- specifications
IdleProps == [name |-> "Sherlock", casesSolvedSoFar |-> Undefined]

\* the components a specification does not run stay unmounted
DetIdle == DetInit /\ props = IdleProps
TogIdle == TogInit /\ togInit = Bool(FALSE)

InitDetective == DetInit /\ CntInit /\ TogIdle /\ EffInit
InitCounter == DetIdle /\ CntInit /\ TogIdle /\ EffInit
InitToggle == DetIdle /\ CntInit /\ TogInit /\ EffInit
InitEffects == DetIdle /\ CntInit /\ TogIdle /\ EffInit

\* the two detective components, side by side
SpecDetective == InitDetective /\ [][DetNext]_vars

\* Counter; React performs the re-render it has scheduled
SpecCounter == InitCounter /\ [][CntNext]_vars /\ WF_vars(CntRender)

\* a component that uses useToggleState
SpecToggle == InitToggle /\ [][TogNext]_vars

\* CounterWithSideEffects; React runs the effects it has scheduled
SpecEffects ==
  /\ InitEffects /\ [][EffNext]_vars
  /\ WF_vars(EffFlush) /\ WF_vars(EffUnmountCleanup)

\* ------------------------------------------------------------- properties

\* C1: DetectiveInTheFieldClass is equivalent to DetectiveInTheField: mounted
\* with the same props (casesSolvedSoFar given or omitted) and taken through
\* the same clicks and re-renders, several clicks before one re-render
\* included, the two components show the same output after every step.
DetectivesEquivalent == fnOut = clsOut

\* C2: over any sequence of renders of CounterWithSideEffects, React runs the
\* effects of each render before the next render, and every scheduled run
\* happens; 'Runs on each render' is logged by every run, 'Runs only on the
\* first render' by the first run alone, 'Runs only when count changes' by
\* the first run and by exactly the runs of the renders whose count differs
\* from the count of the render before.
EffectsRunInv ==
  /\ Len(effRan) = Len(effRenders) - (IF effPhase = "effects" THEN 1 ELSE 0)
  /\ \A i \in 1..Len(effRan) :
       /\ "each" \in effRan[i]
       /\ "first" \in effRan[i] <=> i = 1
       /\ "count" \in effRan[i] <=>
            (i = 1 \/ effRenders[i].count # effRenders[i - 1].count)

EffectsRunAsDocumented ==
  /\ []EffectsRunInv
  /\ (effPhase = "effects") ~> (Len(effRan) = Len(effRenders))

\* C2 witness: three runs of the effects, the second after a render that
\* changed count and the third after a render that left it as it was.
EffectsRunWitness ==
  /\ Len(effRan) = 3
  /\ effRenders[2].count # effRenders[1].count
  /\ effRenders[3].count = effRenders[2].count
  /\ effRan[2] = {"each", "count"}
  /\ effRan[3] = {"each"}

CounterInv ==
  /\ cntMounted /\ cntClicks = 0 => cntShown = 0
  /\ cntMounted /\ cntQueue = <<>> =>
       /\ cntShown = cntCount
       /\ cntShown = cntLatest
       /\ cntClosure = cntCount

CounterShowsLatest ==
  /\ []CounterInv
  /\ (cntQueue # <<>>) ~> (cntQueue = <<>> /\ cntShown = cntLatest)

\* C4 witness: two clicks, each re-rendered, and the display shows 2.
CounterWitness ==
  /\ cntClicks = 2
  /\ cntQueue = <<>>
  /\ cntShown = 2
  /\ cntCount = 2

\* the steps i, i+1 of the history are a toggle whose update is the only one
\* pending, followed by the re-render
ToggledAndRendered(i) ==
  /\ i > 1 /\ i + 1 <= Len(togHistory)
  /\ togHistory[i - 1].op # "toggle"
  /\ togHistory[i].op = "toggle"
  /\ togHistory[i + 1].op = "render"

\* C5: calling the toggle function useToggleState returned and re-rendering
\* negates the returned state, and two toggles each followed by a re-render
\* restore the original state; in Toggle, which starts from false, the colour
\* is 'red' exactly when the state is true and 'black' otherwise: it starts
\* black and alternates on each click.
ToggleRestoresState ==
  /\ \A i \in 1..Len(togHistory) :
       ToggledAndRendered(i) =>
         togHistory[i + 1].state = JsNot(togHistory[i - 1].state)
  /\ \A i \in 1..Len(togHistory) :
       ToggledAndRendered(i) /\ ToggledAndRendered(i + 2) =>
         togHistory[i + 3].state = togHistory[i - 1].state
  /\ togMounted /\ togInit = Bool(FALSE) =>
       /\ togColor = (IF togState = Bool(TRUE) THEN "red" ELSE "black")
       /\ togHistory[1].color = "black"
       /\ \A i \in 1..Len(togHistory) :
            ToggledAndRendered(i) =>
              togHistory[i + 1].color # togHistory[i - 1].color

====
